---- MODULE Spec2Model ----
(***************************************************************************)
(* A model of the hypercat package (src/hypercat.go): one catalogue `h`    *)
(* driven by a client through the public API, together with the custom     *)
(* JSON codec (MarshalJSON / UnmarshalJSON / Parse).                        *)
(*                                                                         *)
(* Go values are modelled as follows.                                       *)
(*   Rel        [rel, val]                                                  *)
(*   Metadata   a sequence of Rel (a nil slice and an empty slice are both  *)
(*              the empty sequence)                                         *)
(*   Item       [Href, Metadata, Description]                               *)
(*   HyperCat   [Items, Metadata, Description]                              *)
(*   JSON text  the JSON value the text denotes:                            *)
(*              [items |-> <<[href, metadata], ...>>, metadata |-> <<...>>] *)
(*              where metadata is the "item-metadata" array, or Malformed   *)
(*              for text json.Unmarshal rejects.                            *)
(*   error      "nil" or the error kind                                     *)
(***************************************************************************)
EXTENDS Naturals, Sequences, FiniteSets

VARIABLES
    h,      \* the client's catalogue (*HyperCat)
    op,     \* the method the client called last, "none" once it has read the result
    arg,    \* the argument of that call
    pre,    \* the catalogue as it was when the call was made
    err,    \* the error the call returned
    ret     \* the value the call returned besides the error

vars == <<h, op, arg, pre, err, ret>>

----------------------------------------------------------------------------
\* Bounds of the model.

MaxRels == 2        \* longest relation store of the catalogue
MaxItems == 2       \* longest item sequence of the catalogue
MaxWireRels == 2    \* longest metadata array of a wire document
MaxWireItems == 1   \* longest items list of a wire document

----------------------------------------------------------------------------
\* Constants of the package and the strings the client uses.

DescriptionRel == "urn:X-hypercat:rels:hasDescription:en"

Nil == "nil"
DuplicateHref == "DuplicateHref"
ItemNotFound == "ItemNotFound"
MissingDescription == "MissingDescription"
MalformedInput == "MalformedInput"

Keys == {"urn:X-hypercat:rels:supportsSearch", DescriptionRel}
Strs == {"v1", "v2"}
Hrefs == {"/a", "/b"}

\* ReplaceRel is also called with a value no AddRel call has used.
ReplaceStrs == Strs \cup {"v3"}

Rel(rel, val) == [rel |-> rel, val |-> val]

RelSet == {Rel(k, v) : k \in Keys, v \in Strs}

SeqsUpTo(S, n) == UNION {[1..m -> S] : m \in 0..n}

----------------------------------------------------------------------------
\* Item (the Item type of the package; its file is not among the sources).

NewItem(href, description) ==
    [Href |-> href, Metadata |-> <<>>, Description |-> description]

\* Item.MarshalJSON: href as its own attribute, the description reinjected
\* as the last entry of the metadata array when it is not empty.
ItemMarshalJSON(item) ==
    [href |-> item.Href,
     metadata |-> IF item.Description # ""
                  THEN Append(item.Metadata, Rel(DescriptionRel, item.Description))
                  ELSE item.Metadata]

RECURSIVE SplitDescriptionFirstWins(_, _, _)
\* The scan with the description taken from the first description-keyed entry.
SplitDescriptionFirstWins(description, store, metadata) ==
    IF metadata = <<>>
    THEN [Description |-> description, Metadata |-> store]
    ELSE LET rel == Head(metadata)
         IN  IF rel.rel = DescriptionRel
             THEN SplitDescriptionFirstWins(
                      IF description = "" THEN rel.val ELSE description,
                      store, Tail(metadata))
             ELSE SplitDescriptionFirstWins(description, Append(store, rel), Tail(metadata))

RECURSIVE SplitDescription(_, _, _)
\* The scan of a metadata array: a description-keyed entry sets the
\* description (the last one wins), every other entry is appended to the store.
SplitDescription(description, store, metadata) ==
    IF metadata = <<>>
    THEN [Description |-> description, Metadata |-> store]
    ELSE LET rel == Head(metadata)
         IN  IF rel.rel = DescriptionRel
             THEN SplitDescription(rel.val, store, Tail(metadata))
             ELSE SplitDescription(description, Append(store, rel), Tail(metadata))

\* Item.UnmarshalJSON into a zero Item.
ItemUnmarshalJSON(w) ==
    LET s == SplitDescription("", <<>>, w.metadata)
        item == [Href |-> w.href, Metadata |-> s.Metadata, Description |-> s.Description]
    IN  IF s.Description = ""
        THEN [item |-> item, err |-> MissingDescription]
        ELSE [item |-> item, err |-> Nil]

\* Item.AddRel, as HyperCat.AddRel.
ItemAddRel(item, rel, val) ==
    [item EXCEPT !.Metadata = Append(item.Metadata, Rel(rel, val))]

ItemSet ==
    {NewItem(href, d) : href \in Hrefs, d \in Strs}
    \cup {ItemAddRel(NewItem(href, "v1"), "urn:X-hypercat:rels:isContentType", "v2") :
             href \in Hrefs}

----------------------------------------------------------------------------
\* Wire documents handed to the decoder.

Malformed == [malformed |-> TRUE]

WireItemSet ==
    { [href |-> "/a", metadata |-> <<Rel(DescriptionRel, "v1")>>],
      [href |-> "/b", metadata |-> <<Rel("urn:X-hypercat:rels:supportsSearch", "v1"),
                                     Rel(DescriptionRel, "v2")>>],
      [href |-> "/b", metadata |-> <<Rel("urn:X-hypercat:rels:supportsSearch", "v1")>>] }

\* On the wire a description-keyed entry may also carry the empty string.
WireRelSet == RelSet \cup {Rel(DescriptionRel, "")}

WireDocs ==
    { [items |-> its, metadata |-> md] :
        its \in SeqsUpTo(WireItemSet, MaxWireItems),
        md \in SeqsUpTo(WireRelSet, MaxWireRels) }

Docs == WireDocs \cup {Malformed}

----------------------------------------------------------------------------
\* The package's functions, as functions of the catalogue they are called on.

NewHyperCat(description) ==
    [Items |-> <<>>, Metadata |-> <<>>, Description |-> description]

\* HyperCat{}: the zero value Parse decodes into.
ZeroHyperCat == [Items |-> <<>>, Metadata |-> <<>>, Description |-> ""]

AddRel(cat, rel, val) ==
    [cat EXCEPT !.Metadata = Append(cat.Metadata, Rel(rel, val))]

\* ReplaceRel stopping at the first entry keyed rel.
ReplaceRelFirstOnly(cat, rel, val) ==
    LET found == {i \in DOMAIN cat.Metadata : cat.Metadata[i].rel = rel}
    IN  IF found = {}
        THEN cat
        ELSE [cat EXCEPT
                !.Metadata[CHOOSE i \in found : \A j \in found : i <= j] = Rel(rel, val)]

ReplaceRel(cat, rel, val) ==
    [cat EXCEPT !.Metadata =
        [i \in DOMAIN cat.Metadata |->
            IF cat.Metadata[i].rel = rel THEN Rel(rel, val) ELSE cat.Metadata[i]]]

\* AddItem without the scan for an item of the same href.
AddItemNoCheck(cat, item) ==
    [h |-> [cat EXCEPT !.Items = Append(cat.Items, item)], err |-> Nil]

\* AddItem putting the new item first.
AddItemFirst(cat, item) ==
    IF \E i \in DOMAIN cat.Items : item.Href = cat.Items[i].Href
    THEN [h |-> cat, err |-> DuplicateHref]
    ELSE [h |-> [cat EXCEPT !.Items = <<item>> \o cat.Items], err |-> Nil]

AddItem(cat, item) ==
    IF \E i \in DOMAIN cat.Items : item.Href = cat.Items[i].Href
    THEN [h |-> cat, err |-> DuplicateHref]
    ELSE [h |-> [cat EXCEPT !.Items = Append(cat.Items, item)], err |-> Nil]

\* ReplaceItem adding the item when none has its href.
ReplaceItemOrAdd(cat, newItem) ==
    LET found == {i \in DOMAIN cat.Items : newItem.Href = cat.Items[i].Href}
    IN  IF found = {}
        THEN [h |-> [cat EXCEPT !.Items = Append(cat.Items, newItem)], err |-> ItemNotFound]
        ELSE LET index == CHOOSE i \in found : \A j \in found : i <= j
             IN  [h |-> [cat EXCEPT !.Items[index] = newItem], err |-> Nil]

ReplaceItem(cat, newItem) ==
    LET found == {i \in DOMAIN cat.Items : newItem.Href = cat.Items[i].Href}
    IN  IF found = {}
        THEN [h |-> cat, err |-> ItemNotFound]
        ELSE LET index == CHOOSE i \in found : \A j \in found : i <= j
             IN  [h |-> [cat EXCEPT !.Items[index] = newItem], err |-> Nil]

MarshalJSON(cat) ==
    [items |-> [i \in DOMAIN cat.Items |-> ItemMarshalJSON(cat.Items[i])],
     metadata |-> IF cat.Description # ""
                  THEN Append(cat.Metadata, Rel(DescriptionRel, cat.Description))
                  ELSE cat.Metadata]

\* The loop appending every entry, the description-keyed ones too.
ScanMetadataKeepsAll(cat, metadata) ==
    LET s == SplitDescription(cat.Description, cat.Metadata, metadata)
    IN  [cat EXCEPT !.Description = s.Description,
                    !.Metadata = cat.Metadata \o metadata]

\* The loop of UnmarshalJSON over t.Metadata, writing to the receiver.
ScanMetadata(cat, metadata) ==
    LET s == SplitDescription(cat.Description, cat.Metadata, metadata)
    IN  [cat EXCEPT !.Description = s.Description, !.Metadata = s.Metadata]

UnmarshalJSON(cat, b) ==
    IF b = Malformed
    THEN [h |-> cat, err |-> MalformedInput]
    ELSE LET items == [i \in DOMAIN b.items |-> ItemUnmarshalJSON(b.items[i])]
             bad == {i \in DOMAIN items : items[i].err # Nil}
             t == [Items |-> [i \in DOMAIN items |-> items[i].item],
                   Metadata |-> b.metadata]
             scanned == ScanMetadata(cat, t.Metadata)
         IN  IF bad # {}
             THEN [h |-> cat,
                   err |-> items[CHOOSE i \in bad : \A j \in bad : i <= j].err]
             ELSE IF scanned.Description = ""
                  THEN [h |-> scanned, err |-> MissingDescription]
                  ELSE [h |-> scanned, err |-> Nil]

\* Parse returns (*HyperCat, error): cat is <<>> for a nil pointer.
Parse(str) ==
    LET r == UnmarshalJSON(ZeroHyperCat, str)
    IN  IF r.err # Nil
        THEN [cat |-> <<>>, err |-> r.err]
        ELSE [cat |-> <<r.h>>, err |-> Nil]

Rels(cat) == [i \in DOMAIN cat.Metadata |-> cat.Metadata[i].rel]

RECURSIVE ValsOf(_, _)
ValsOf(metadata, key) ==
    IF metadata = <<>>
    THEN <<>>
    ELSE IF Head(metadata).rel = key
         THEN <<Head(metadata).val>> \o ValsOf(Tail(metadata), key)
         ELSE ValsOf(Tail(metadata), key)

Vals(cat, key) == ValsOf(cat.Metadata, key)

----------------------------------------------------------------------------
\* The client: one call at a time, then it reads the result.

NoArg == [none |-> TRUE]
NoRet == [none |-> TRUE]

Init ==
    /\ \E description \in Strs \cup {""} : h = NewHyperCat(description)
    /\ op = "none"
    /\ arg = NoArg
    /\ pre = h
    /\ err = Nil
    /\ ret = NoRet

CallAddRel ==
    /\ op = "none"
    /\ Len(h.Metadata) < MaxRels
    /\ \E rel \in Keys, val \in Strs :
          /\ h' = AddRel(h, rel, val)
          /\ arg' = Rel(rel, val)
    /\ op' = "AddRel"
    /\ pre' = h
    /\ err' = Nil
    /\ ret' = NoRet

CallReplaceRel ==
    /\ op = "none"
    /\ \E rel \in Keys, val \in ReplaceStrs :
          /\ h' = ReplaceRel(h, rel, val)
          /\ arg' = Rel(rel, val)
    /\ op' = "ReplaceRel"
    /\ pre' = h
    /\ err' = Nil
    /\ ret' = NoRet

CallAddItem ==
    /\ op = "none"
    /\ \E item \in ItemSet :
          LET r == AddItem(h, item)
          IN  /\ Len(r.h.Items) <= MaxItems
              /\ h' = r.h
              /\ err' = r.err
              /\ arg' = item
    /\ op' = "AddItem"
    /\ pre' = h
    /\ ret' = NoRet

CallReplaceItem ==
    /\ op = "none"
    /\ \E item \in ItemSet :
          LET r == ReplaceItem(h, item)
          IN  /\ h' = r.h
              /\ err' = r.err
              /\ arg' = item
    /\ op' = "ReplaceItem"
    /\ pre' = h
    /\ ret' = NoRet

CallMarshalJSON ==
    /\ op = "none"
    /\ ret' = [bytes |-> MarshalJSON(h)]
    /\ op' = "MarshalJSON"
    /\ arg' = NoArg
    /\ pre' = h
    /\ err' = Nil
    /\ h' = h

CallUnmarshalJSON ==
    /\ op = "none"
    /\ \E b \in Docs :
          /\ b # Malformed => Len(h.Metadata) + Len(b.metadata) <= MaxRels
          /\ LET r == UnmarshalJSON(h, b)
             IN  /\ h' = r.h
                 /\ err' = r.err
          /\ arg' = b
    /\ op' = "UnmarshalJSON"
    /\ pre' = h
    /\ ret' = NoRet

\* Parse does not read the client's catalogue: the client parses a document
\* it was handed before it has touched its own catalogue, or the bytes
\* MarshalJSON has just returned.
CallParse ==
    /\ \E str \in (IF op = "MarshalJSON" THEN {ret.bytes}
                   ELSE IF op = "none" /\ h = ZeroHyperCat THEN Docs ELSE {}) :
          LET r == Parse(str)
          IN  /\ ret' = [cat |-> r.cat]
              /\ err' = r.err
              /\ arg' = str
    /\ op' = "Parse"
    /\ pre' = h
    /\ h' = h

\* The client has read the result of the call.
Return ==
    /\ op # "none"
    /\ op' = "none"
    /\ arg' = NoArg
    /\ pre' = h
    /\ err' = Nil
    /\ ret' = NoRet
    /\ h' = h

Next ==
    \/ CallAddItem
    \/ CallReplaceItem
    \/ CallAddRel
    \/ CallReplaceRel
    \/ CallMarshalJSON
    \/ CallUnmarshalJSON
    \/ CallParse
    \/ Return

Spec == Init /\ [][Next]_vars

----------------------------------------------------------------------------
\* Vocabulary of the properties.

NotDescription(r) == r.rel # DescriptionRel

NoDescriptionEntry(metadata) ==
    \A i \in DOMAIN metadata : metadata[i].rel # DescriptionRel

DescriptionEntries(metadata) ==
    {i \in DOMAIN metadata : metadata[i].rel = DescriptionRel}

\* description is the value of the last description-keyed entry of metadata
IsLastDescription(description, metadata) ==
    \E i \in DescriptionEntries(metadata) :
        /\ \A j \in DescriptionEntries(metadata) : j <= i
        /\ description = metadata[i].val

\* the catalogue's item sequence is, position by position, the wire items
ItemsKept(cat, doc) ==
    /\ Len(cat.Items) = Len(doc.items)
    /\ \A i \in DOMAIN doc.items :
          /\ cat.Items[i].Href = doc.items[i].href
          /\ IsLastDescription(cat.Items[i].Description, doc.items[i].metadata)
          /\ cat.Items[i].Metadata = SelectSeq(doc.items[i].metadata, NotDescription)

HasHref(items, href) == \E i \in DOMAIN items : items[i].Href = href

----------------------------------------------------------------------------
\* C1. Round trip: parsing the encoding of a catalogue built through the
\* API (non-empty description, every item's description non-empty) succeeds
\* and returns a catalogue with the same description, relation sequence and
\* item sequence.
C1_RoundTrip ==
    ( /\ op = "Parse"
      /\ arg = MarshalJSON(pre)
      /\ pre.Description # ""
      /\ \A i \in DOMAIN pre.Items : pre.Items[i].Description # "" )
    => /\ err = Nil
       /\ Len(ret.cat) = 1
       /\ ret.cat[1].Description = pre.Description
       /\ ret.cat[1].Metadata = pre.Metadata
       /\ ret.cat[1].Items = pre.Items

\* C2. Href uniqueness: no two items of the catalogue's item sequence have
\* the same href, whatever calls were made and whether they failed.
C2_HrefsUnique ==
    \A i, j \in DOMAIN h.Items :
        i # j => h.Items[i].Href # h.Items[j].Href

C2_Witness ==
    /\ op = "AddItem"
    /\ err = DuplicateHref
    /\ Len(h.Items) = 2

\* C3. AddItem: with an item of the same href present it returns
\* DuplicateHref and leaves the item sequence as it was; otherwise it returns
\* success and the item is the new last element, every prior item keeping
\* its index.
C3_AddItem ==
    op = "AddItem" =>
        IF HasHref(pre.Items, arg.Href)
        THEN /\ err = DuplicateHref
             /\ h.Items = pre.Items
        ELSE /\ err = Nil
             /\ Len(h.Items) = Len(pre.Items) + 1
             /\ h.Items[Len(h.Items)] = arg
             /\ \A i \in DOMAIN pre.Items : h.Items[i] = pre.Items[i]

C3_Witness ==
    /\ op = "AddItem"
    /\ err = Nil
    /\ Len(pre.Items) = 1
    /\ h.Items[2] = arg

\* C4. ReplaceItem: with an item of the same href present it returns
\* success, the first such item is replaced in place and the length and all
\* other items are unchanged; otherwise it returns ItemNotFound and leaves the
\* item sequence as it was.
C4_ReplaceItem ==
    op = "ReplaceItem" =>
        IF HasHref(pre.Items, arg.Href)
        THEN /\ err = Nil
             /\ Len(h.Items) = Len(pre.Items)
             /\ \E k \in DOMAIN pre.Items :
                   /\ pre.Items[k].Href = arg.Href
                   /\ \A j \in 1..(k - 1) : pre.Items[j].Href # arg.Href
                   /\ h.Items[k] = arg
                   /\ \A j \in DOMAIN pre.Items : j # k => h.Items[j] = pre.Items[j]
        ELSE /\ err = ItemNotFound
             /\ h.Items = pre.Items

C4_Witness ==
    /\ op = "ReplaceItem"
    /\ err = Nil
    /\ Len(pre.Items) = 2
    /\ pre.Items[2].Href = arg.Href
    /\ pre.Items[2] # arg

\* C5. Mandatory description: decoding a document whose top-level metadata
\* array has no description-keyed entry, or one of whose items has none,
\* fails with MissingDescription, through Parse and through UnmarshalJSON
\* whatever the receiving catalogue held.
C5_MandatoryDescription ==
    ( /\ op \in {"Parse", "UnmarshalJSON"}
      /\ arg # Malformed
      /\ \/ NoDescriptionEntry(arg.metadata)
         \/ \E i \in DOMAIN arg.items : NoDescriptionEntry(arg.items[i].metadata) )
    => err = MissingDescription

\* C6. Decode is all-or-nothing: a failed Parse returns no catalogue, and a
\* failed UnmarshalJSON leaves the description, relation store and item
\* sequence of its receiver as they were.
C6_AllOrNothing ==
    /\ (op = "Parse" /\ err # Nil) => ret.cat = <<>>
    /\ (op = "UnmarshalJSON" /\ err # Nil) =>
          /\ h.Description = pre.Description
          /\ h.Metadata = pre.Metadata
          /\ h.Items = pre.Items

\* C7. ReplaceRel: afterwards every entry keyed rel has value val, every
\* other entry is unchanged, the length and the key sequence are unchanged,
\* a store with no entry keyed rel is unchanged, no error is raised, and
\* Vals(rel) is val once per entry keyed rel.
C7_ReplaceRel ==
    op = "ReplaceRel" =>
        /\ err = Nil
        /\ Len(h.Metadata) = Len(pre.Metadata)
        /\ Rels(h) = Rels(pre)
        /\ \A i \in DOMAIN pre.Metadata :
              IF pre.Metadata[i].rel = arg.rel
              THEN h.Metadata[i].val = arg.val
              ELSE h.Metadata[i] = pre.Metadata[i]
        /\ (\A i \in DOMAIN pre.Metadata : pre.Metadata[i].rel # arg.rel)
              => h.Metadata = pre.Metadata
        /\ Vals(h, arg.rel) = [i \in 1..Len(Vals(pre, arg.rel)) |-> arg.val]
        /\ h.Items = pre.Items
        /\ h.Description = pre.Description

\* AddRel(k, v1); AddRel(k, v2); ReplaceRel(k, v3): Vals(k) is <<v3, v3>>.
C7_Witness ==
    /\ op = "ReplaceRel"
    /\ Vals(pre, arg.rel) = <<"v1", "v2">>
    /\ arg.val = "v3"
    /\ Vals(h, arg.rel) = <<"v3", "v3">>

\* C8 as stated. The relation store never holds an entry keyed by the
\* reserved description key, whatever the arguments of the calls.
C8_StoreExcludesDescription == NoDescriptionEntry(h.Metadata)

\* C8 as amended. NewHyperCat and a successful decode into a fresh
\* catalogue give a store with no description-keyed entry, and every call
\* other than AddRel with the reserved description key made on a catalogue
\* whose store has none leaves it with none, so that the encoded metadata
\* array then has at most one description-keyed entry.
C8_StoreExcludesDescriptionUnlessAdded ==
    /\ \A d \in Strs \cup {""} : NoDescriptionEntry(NewHyperCat(d).Metadata)
    /\ (op = "Parse" /\ err = Nil) => NoDescriptionEntry(ret.cat[1].Metadata)
    /\ ( /\ op # "none"
         /\ ~(op = "AddRel" /\ arg.rel = DescriptionRel)
         /\ NoDescriptionEntry(pre.Metadata) )
       => /\ NoDescriptionEntry(h.Metadata)
          /\ Cardinality(DescriptionEntries(MarshalJSON(h).metadata)) <= 1

C8_Witness ==
    /\ op = "UnmarshalJSON"
    /\ err = Nil
    /\ NoDescriptionEntry(pre.Metadata)
    /\ Len(arg.metadata) = 2
    /\ arg.metadata[1].rel = DescriptionRel
    /\ arg.metadata[2].rel # DescriptionRel
    /\ h.Metadata = Append(pre.Metadata, arg.metadata[2])

\* C9. Decode keeps the items: after a successful decode into a fresh
\* catalogue the item sequence has the length of the document's items list
\* and, position by position, the same href, description and non-description
\* relations.
C9_DecodeKeepsItems ==
    /\ (op = "Parse" /\ err = Nil) => ItemsKept(ret.cat[1], arg)
    /\ (op = "UnmarshalJSON" /\ err = Nil /\ pre = ZeroHyperCat) => ItemsKept(h, arg)

\* C10. Decode splits the description out of the metadata: after a
\* successful decode into a fresh catalogue the description is the value of
\* the last description-keyed entry and the store is the wire metadata array
\* without its description-keyed entries, the others in their order, so that
\* Rels and Vals never report the description relation.
C10_DecodeSplitsDescription ==
    \A cat \in (IF op = "Parse" /\ err = Nil THEN {ret.cat[1]} ELSE {})
              \cup (IF op = "UnmarshalJSON" /\ err = Nil /\ pre = ZeroHyperCat
                    THEN {h} ELSE {}) :
        /\ IsLastDescription(cat.Description, arg.metadata)
        /\ cat.Metadata = SelectSeq(arg.metadata, NotDescription)
        /\ \A i \in DOMAIN Rels(cat) : Rels(cat)[i] # DescriptionRel
        /\ Vals(cat, DescriptionRel) = <<>>

\* two description-keyed entries around an ordinary one: the last one wins
C10_Witness ==
    /\ op = "UnmarshalJSON"
    /\ err = Nil
    /\ pre = ZeroHyperCat
    /\ Len(arg.metadata) = 2
    /\ arg.metadata[1].rel = DescriptionRel
    /\ arg.metadata[2].rel = DescriptionRel
    /\ arg.metadata[1].val # arg.metadata[2].val
    /\ h.Description = arg.metadata[2].val

====
